---- MODULE Spec2Model ----
(***************************************************************************)
(* State-machine model of simpleARDIY.cpp: main with its set-up steps and  *)
(* the GLUT callbacks mainLoop, Keyboard, Visibility and Display of a      *)
(* single-marker AR viewer, over the program's global and static           *)
(* variables and the handles of the libraries it uses.                     *)
(*                                                                         *)
(* Units.  Times are integer milliseconds, as glutGet(GLUT_ELAPSED_TIME)   *)
(* returns them.  The rotation angle is kept in millidegrees, so that      *)
(* "timeDelta * 45.0f" with timeDelta = dt/1000 s is the integer 45 * dt;  *)
(* float rounding is not modelled.  Confidences are integers (a scaled     *)
(* cf).  A frame is named by the time of the tick that acquired it; 0 is   *)
(* the NULL frame pointer.                                                 *)
(*                                                                         *)
(* Not modelled: Reshape (it writes only the window size), the text the    *)
(* HUD prints beyond its draw-mode label, and the arUtilTimer that the    *)
(* 'c' key logs and resets.                                                *)
(***************************************************************************)
EXTENDS Integers, Sequences, FiniteSets, TLC

VARIABLES
    pc,                      \* "start" before main, "running" inside glutMainLoop,
                             \* "exited" after exit(), "crashed" when killed
    exitCode,                \* process exit status once exited, -1 otherwise
    exitBy,                  \* the function (and key, and failed call) that ended it
    res,                     \* state of every resource handle: "none" before it is
                             \* created, "live", "freed", "refreed"
    idleFunc,                \* the registered GLUT idle callback
    tick,                    \* outcome of the last mainLoop call
    ms_prev,                 \* mainLoop's static ms_prev
    imageNumber,             \* mainLoop's static imageNumber
    saveLog,                 \* the arVideoSaveImageJPEG calls made so far
    gDrawRotate,
    gDrawRotateAngle,
    gARTImage,
    gARTImageSavePlease,
    gCallCountMarkerDetect,
    markerInfo,              \* gARHandle->markerInfo[0 .. marker_num-1]
    gPatt_found,
    gPatt_trans,
    arLabelingThreshMode,    \* detector state held in gARHandle
    arLabelingThresh,
    arImageProcMode,
    arDebug,
    arglDrawMode,            \* renderer state held in gArglSettings
    arglTexmapMode,
    gShowHelp,
    gShowMode,
    lastAdjust,              \* threshChange and the threshold read, last adjusting key
    keyRun,                  \* the presses of one cycling key in a row, no other key
                             \* between them, and the setting before the first
    lastVisible,             \* argument of the last Visibility callback
    redisplay,               \* a glutPostRedisplay is pending
    lastDraw                 \* what the last Display call drew

vars == <<pc, exitCode, exitBy, res, idleFunc, tick, ms_prev, imageNumber, saveLog,
          gDrawRotate, gDrawRotateAngle, gARTImage, gARTImageSavePlease,
          gCallCountMarkerDetect, markerInfo, gPatt_found, gPatt_trans,
          arLabelingThreshMode, arLabelingThresh, arImageProcMode, arDebug,
          arglDrawMode, arglTexmapMode, gShowHelp, gShowMode, lastAdjust,
          keyRun, lastVisible, redisplay, lastDraw>>

loopVars == <<tick, ms_prev, imageNumber, saveLog, gDrawRotateAngle, gARTImage,
              gCallCountMarkerDetect, markerInfo, gPatt_found, gPatt_trans>>

detectorVars == <<arLabelingThreshMode, arLabelingThresh, arImageProcMode, arDebug>>

rendererVars == <<arglDrawMode, arglTexmapMode>>

hudVars == <<gShowHelp, gShowMode>>

(***************************************************************************)
(* Program constants.                                                      *)
(***************************************************************************)
GateMs == 10
DegPerSec == 45
FullTurn == 360
ThreshStep == 5
ThreshMax == 255
ExitFailure == -1
PattId == 0
DefaultThresh == 100
NULL == 0

\* 360 degrees in millidegrees, and the milliseconds one full turn takes.
FullTurnMilli == FullTurn * 1000
TurnMs == FullTurnMilli \div DegPerSec

(***************************************************************************)
(* Bounds of the model.                                                    *)
(***************************************************************************)
MaxTicks == 2
MaxTurns == 2
MaxMarkers == 3
MaxCf == 2
MaxImages == 2
MaxAdjust == 2

(***************************************************************************)
(* Input domains.                                                          *)
(***************************************************************************)
Resources == {"obj", "video", "cparamLT", "arHandle", "ar3DHandle", "capture",
              "pattHandle", "argl"}

QuitKeys == {"ESC", "Q", "q"}
BoundKeys == QuitKeys \cup {" ", "X", "x", "C", "c", "a", "A", "-", "+", "=",
                            "D", "d", "s", "S", "?", "/", "m", "M"}
\* "z" stands for every key without a binding.
AllKeys == BoundKeys \cup {"z"}

ThreshModes == {"MANUAL", "AUTO_MEDIAN", "AUTO_OTSU", "AUTO_ADAPTIVE"}
ImageProcModes == {"FRAME_IMAGE", "FIELD_IMAGE"}
DrawModes == {"GL_DRAW_PIXELS", "TEXTURE_MAPPING"}
TexmapModes == {"FULL_IMAGE", "HALF_IMAGE"}

\* One detected marker: its pattern id and its confidence.
Markers == [id : {PattId, PattId + 1}, cf : 1..MaxCf]

SeqsUpTo(S, n) == UNION {[1..m -> S] : m \in 0..n}

(***************************************************************************)
(* exit(): the status the parent sees is the low 8 bits of the argument.   *)
(***************************************************************************)
ExitStatus(code) == code % 256

(***************************************************************************)
(* cleanup(): every handle is released, whatever its state.  Releasing a   *)
(* live handle frees it; releasing a freed one frees it again; a handle    *)
(* that was never created is passed as NULL.  gObj is guarded by its NULL  *)
(* check and reset, so it is freed at most once.                           *)
(***************************************************************************)
Release(st) ==
    CASE st = "live" -> "freed"
      [] st = "freed" -> "refreed"
      [] OTHER -> st

cleanup(r) ==
    [x \in Resources |->
        IF x = "obj"
        THEN (IF r[x] = "live" THEN "freed" ELSE r[x])
        ELSE Release(r[x])]

(***************************************************************************)
(* mainLoop: the marker selection loop.  j and k are the C indices         *)
(* (0-based, k = -1 for "none"); markerInfo[j] of the code is info[j+1].   *)
(***************************************************************************)
SelectStepLast(info, j, k) ==
    IF info[j + 1].id = PattId
    THEN IF k = -1 THEN j
         ELSE IF info[j + 1].cf >= info[k + 1].cf THEN j ELSE k
    ELSE k

SelectStep(info, j, k) ==
    IF info[j + 1].id = PattId
    THEN IF k = -1 THEN j
         ELSE IF info[j + 1].cf > info[k + 1].cf THEN j ELSE k
    ELSE k

RECURSIVE SelectLoop(_, _, _)
SelectLoop(info, j, k) ==
    IF j < Len(info) THEN SelectLoop(info, j + 1, SelectStep(info, j, k)) ELSE k

SelectMarker(info) == SelectLoop(info, 0, -1)

\* gPatt_found after the selection: the solver's result is not consulted.
PattFoundKeep(k, err, old) == IF k # -1 THEN TRUE ELSE old

PattFound(k, err, old) == k # -1

(***************************************************************************)
(* DrawObjUpdate: timeDelta is given in milliseconds, the angle in         *)
(* millidegrees.                                                           *)
(***************************************************************************)
DrawObjUpdateStill(angle, rotate, timeDelta) == angle

DrawObjUpdate(angle, rotate, timeDelta) ==
    IF rotate
    THEN LET a == angle + timeDelta * DegPerSec
         IN  IF a > FullTurnMilli THEN a - FullTurnMilli ELSE a
    ELSE angle

\* The rate gate of mainLoop: TRUE when the call returns at once.
GatedNever(elapsed) == FALSE

GatedAlways(elapsed) == TRUE

Gated(elapsed) == elapsed < GateMs

(***************************************************************************)
(* sprintf(imageNumberText, "image-%04d.jpg", imageNumber++)               *)
(***************************************************************************)
RECURSIVE Digits(_)
Digits(n) == IF n < 10 THEN <<n>> ELSE Digits(n \div 10) \o <<n % 10>>

RECURSIVE ZeroPad(_, _)
ZeroPad(ds, width) == IF Len(ds) >= width THEN ds ELSE ZeroPad(<<0>> \o ds, width)

\* imageNumber++ : the counter after a tick, saving or not.
ImageNumberKept(n, saving) == n

NextImageNumber(n, saving) == IF saving THEN n + 1 ELSE n

ImageNameNoPad(n) == [prefix |-> "image-", digits |-> Digits(n), suffix |-> ".jpg"]

ImageName(n) == [prefix |-> "image-", digits |-> ZeroPad(Digits(n), 4), suffix |-> ".jpg"]

(***************************************************************************)
(* Keyboard: the new value of each component after a key press.            *)
(***************************************************************************)
\* 'a' falling through into the case of '-'.
threshChangeFallThrough(key) ==
    CASE key \in {"-", "a", "A"} -> -ThreshStep
      [] key \in {"+", "="} -> ThreshStep
      [] OTHER -> 0

threshChange(key) ==
    CASE key = "-" -> -ThreshStep
      [] key \in {"+", "="} -> ThreshStep
      [] OTHER -> 0

ClampThreshLow(t) == IF t < 0 THEN 0 ELSE t

ClampThresh(t) ==
    LET lo == IF t < 0 THEN 0 ELSE t
    IN  IF lo > ThreshMax THEN ThreshMax ELSE lo

KeyThresh(key, t) ==
    IF threshChange(key) # 0 THEN ClampThresh(t + threshChange(key)) ELSE t

KeyThreshModeSkip(key, m) ==
    IF key \in {"a", "A"}
    THEN CASE m = "MANUAL" -> "AUTO_MEDIAN"
           [] m = "AUTO_MEDIAN" -> "AUTO_OTSU"
           [] OTHER -> "MANUAL"
    ELSE m

KeyThreshMode(key, m) ==
    IF key \in {"a", "A"}
    THEN CASE m = "MANUAL" -> "AUTO_MEDIAN"
           [] m = "AUTO_MEDIAN" -> "AUTO_OTSU"
           [] m = "AUTO_OTSU" -> "AUTO_ADAPTIVE"
           [] OTHER -> "MANUAL"
    ELSE m

KeyImageProcMode(key, m) ==
    IF key \in {"X", "x"}
    THEN (IF m = "FRAME_IMAGE" THEN "FIELD_IMAGE" ELSE "FRAME_IMAGE")
    ELSE m

KeyDebug(key, d) == IF key \in {"D", "d"} THEN (IF d = 0 THEN 1 ELSE 0) ELSE d

KeyDrawMode(key, dm, tm) ==
    IF key \in {"C", "c"}
    THEN IF dm = "GL_DRAW_PIXELS" THEN "TEXTURE_MAPPING"
         ELSE IF tm = "FULL_IMAGE" THEN dm ELSE "GL_DRAW_PIXELS"
    ELSE dm

KeyTexmapModeKeep(key, dm, tm) ==
    IF key \in {"C", "c"}
    THEN IF dm = "GL_DRAW_PIXELS" THEN tm
         ELSE IF tm = "FULL_IMAGE" THEN "HALF_IMAGE" ELSE tm
    ELSE tm

KeyTexmapMode(key, dm, tm) ==
    IF key \in {"C", "c"}
    THEN IF dm = "GL_DRAW_PIXELS" THEN "FULL_IMAGE"
         ELSE IF tm = "FULL_IMAGE" THEN "HALF_IMAGE" ELSE tm
    ELSE tm

\* printMode: the draw mode in effect, as the HUD names it.
DrawModeLabel(dm, tm) ==
    IF dm = "GL_DRAW_PIXELS" THEN "GL_DRAW_PIXELS"
    ELSE IF tm = "FULL_IMAGE" THEN "texture mapping"
         ELSE "texture mapping (even field only)"

KeyShowHelpThree(key, h) ==
    IF key \in {"?", "/"} THEN (IF h + 1 > 2 THEN 0 ELSE h + 1) ELSE h

KeyShowHelp(key, h) ==
    IF key \in {"?", "/"} THEN (IF h + 1 > 1 THEN 0 ELSE h + 1) ELSE h

KeyShowMode(key, m) == IF key \in {"m", "M"} THEN (IF m = 0 THEN 1 ELSE 0) ELSE m

\* The keys that step a setting round a ring, named by their lower-case key,
\* and the number of values of the ring.
Binding(key) ==
    CASE key \in {"X", "x"} -> "x"
      [] key \in {"C", "c"} -> "c"
      [] key \in {"a", "A"} -> "a"
      [] key \in {"?", "/"} -> "?"
      [] key \in {"m", "M"} -> "m"
      [] OTHER -> key

CycleKeys == {" ", "x", "c", "a", "?", "m"}

Period(b) == CASE b = "a" -> 4 [] b = "c" -> 3 [] OTHER -> 2

NoRun == [key |-> "none", n |-> 0, from |-> "none"]

\* The run after key: it grows while the same cycling key is pressed and has
\* not gone once round its ring, starts anew with setting, the value the key
\* found, otherwise, and ends with any other key.
KeyRun(key, run, setting) ==
    IF Binding(key) \notin CycleKeys THEN NoRun
    ELSE IF run.key = Binding(key) /\ run.n < Period(Binding(key))
         THEN [run EXCEPT !.n = @ + 1]
         ELSE [key |-> Binding(key), n |-> 1, from |-> setting]

\* exit(0) of the quit keys.
QuitStatusFailure == ExitStatus(ExitFailure)

QuitStatus == ExitStatus(0)

Keyboard(key) ==
    /\ pc = "running"
    /\ IF key \in QuitKeys
       THEN /\ res' = cleanup(res)
            /\ pc' = "exited"
            /\ exitCode' = QuitStatus
            /\ exitBy' = [op |-> "Keyboard", key |-> key, call |-> "none"]
            /\ UNCHANGED <<gDrawRotate, gARTImageSavePlease, gCallCountMarkerDetect,
                           detectorVars, rendererVars, hudVars, lastAdjust, keyRun>>
       ELSE /\ gDrawRotate' = IF key = " " THEN ~gDrawRotate ELSE gDrawRotate
            /\ arImageProcMode' = KeyImageProcMode(key, arImageProcMode)
            /\ arglDrawMode' = KeyDrawMode(key, arglDrawMode, arglTexmapMode)
            /\ arglTexmapMode' = KeyTexmapMode(key, arglDrawMode, arglTexmapMode)
            /\ gCallCountMarkerDetect' =
                   IF key \in {"C", "c"} THEN 0 ELSE gCallCountMarkerDetect
            /\ arLabelingThreshMode' = KeyThreshMode(key, arLabelingThreshMode)
            /\ arLabelingThresh' = KeyThresh(key, arLabelingThresh)
            /\ lastAdjust' = IF threshChange(key) # 0
                             THEN [threshChange |-> threshChange(key),
                                   threshhold |-> arLabelingThresh]
                             ELSE lastAdjust
            /\ arDebug' = KeyDebug(key, arDebug)
            /\ gARTImageSavePlease' =
                   IF key \in {"s", "S"} THEN TRUE ELSE gARTImageSavePlease
            /\ gShowHelp' = KeyShowHelp(key, gShowHelp)
            /\ gShowMode' = KeyShowMode(key, gShowMode)
            /\ keyRun' = KeyRun(key, keyRun,
                           CASE Binding(key) = " " -> gDrawRotate
                             [] Binding(key) = "x" -> arImageProcMode
                             [] Binding(key) = "c" -> <<arglDrawMode, arglTexmapMode>>
                             [] Binding(key) = "a" -> arLabelingThreshMode
                             [] Binding(key) = "?" -> gShowHelp
                             [] Binding(key) = "m" -> gShowMode
                             [] OTHER -> "none")
            /\ UNCHANGED <<pc, exitCode, exitBy, res>>
    /\ UNCHANGED <<idleFunc, tick, ms_prev, imageNumber, saveLog, gDrawRotateAngle,
                   gARTImage, markerInfo, gPatt_found, gPatt_trans, lastVisible,
                   redisplay, lastDraw>>

(***************************************************************************)
(* Visibility: registers or removes the idle callback.                     *)
(***************************************************************************)
IdleFuncAlways(visible) == "mainLoop"

IdleFuncFor(visible) == IF visible = "GLUT_VISIBLE" THEN "mainLoop" ELSE "NULL"

Visibility(visible) ==
    /\ pc = "running"
    /\ idleFunc' = IdleFuncFor(visible)
    /\ lastVisible' = visible
    /\ UNCHANGED <<pc, exitCode, exitBy, res, loopVars, gDrawRotate,
                   gARTImageSavePlease, detectorVars, rendererVars, hudVars,
                   lastAdjust, keyRun, redisplay, lastDraw>>

(***************************************************************************)
(* Display: background blit of gARTImage, the mesh when gPatt_found, the   *)
(* HUD, buffer swap.  GLUT calls it for a posted redisplay and also for an *)
(* expose or a resize, so it is enabled whenever the program runs.         *)
(***************************************************************************)
\* The drawing calls of one Display call, in the order they are made: the
\* background blit, the mesh, the 2D overlay set-up and its texts, the swap.
DisplayCallsMeshAlways(found, showMode, showHelp) ==
    <<"arglDispImage", "DrawObj", "glOrtho">>
        \o (IF showMode # 0 THEN <<"printMode">> ELSE <<>>)
        \o (IF showHelp = 1 THEN <<"printHelpKeys">> ELSE <<>>)
        \o <<"glutSwapBuffers">>

DisplayCalls(found, showMode, showHelp) ==
    <<"arglDispImage">>
        \o (IF found THEN <<"DrawObj">> ELSE <<>>)
        \o <<"glOrtho">>
        \o (IF showMode # 0 THEN <<"printMode">> ELSE <<>>)
        \o (IF showHelp # 0 /\ showHelp = 1 THEN <<"printHelpKeys">> ELSE <<>>)
        \o <<"glutSwapBuffers">>

\* How often one Display call reads gARTImage and gPatt_trans: the blit takes
\* the frame, arglCameraViewRH takes the pose inside "if (gPatt_found)".
DisplayReadsPoseAlways(found) == [frame |-> 1, pose |-> 1]

DisplayReads(found) == [frame |-> 1, pose |-> IF found THEN 1 ELSE 0]

Display ==
    /\ pc = "running"
    /\ lastDraw' = [background |-> IF gARTImage = NULL THEN "NULL" ELSE "frame",
                    mesh |-> gPatt_found,
                    calls |-> DisplayCalls(gPatt_found, gShowMode, gShowHelp),
                    reads |-> DisplayReads(gPatt_found),
                    poseOfFrame |-> gPatt_found /\ gARTImage # NULL
                                    /\ gPatt_trans.ok
                                    /\ gPatt_trans.frame = gARTImage]
    /\ gARTImage' = NULL
    /\ redisplay' = FALSE
    /\ UNCHANGED <<pc, exitCode, exitBy, res, idleFunc, tick, ms_prev, imageNumber,
                   saveLog, gDrawRotate, gDrawRotateAngle, gARTImageSavePlease,
                   gCallCountMarkerDetect, markerInfo, gPatt_found, gPatt_trans,
                   detectorVars, rendererVars, hudVars, lastAdjust, keyRun, lastVisible>>

(***************************************************************************)
(* mainLoop, one call of the idle callback.  Inputs: ms, the value of      *)
(* glutGet(GLUT_ELAPSED_TIME); image, whether arVideoGetImage returns a    *)
(* frame; saveOk, detectOk, poseOk, whether arVideoSaveImageJPEG,          *)
(* arDetectMarker and arGetTransMatSquare succeed; markers, the array the  *)
(* detector leaves in gARHandle.  The value arGetTransMatSquare returns is  *)
(* stored in err and not read again; when the solver fails, gPatt_trans    *)
(* keeps its content and is marked as holding no pose of this frame.       *)
(***************************************************************************)
\* exit(-1) after a failed arDetectMarker.
FatalStatusZero == ExitStatus(0)

FatalStatus == ExitStatus(ExitFailure)

mainLoop(ms, image, saveOk, detectOk, markers, poseOk) ==
    LET elapsed == ms - ms_prev
        k == SelectMarker(markers)
        saving == gARTImageSavePlease
        saved == IF ~saving THEN "none" ELSE IF saveOk THEN "ok" ELSE "failed"
    IN
    /\ pc = "running"
    /\ idleFunc = "mainLoop"
    /\ ms >= tick.ms
    /\ IF Gated(elapsed)
       THEN /\ tick' = [res |-> "gated", ms |-> ms, sel |-> -1,
                        prevFound |-> gPatt_found, save |-> "none"]
            /\ UNCHANGED <<pc, exitCode, exitBy, ms_prev, imageNumber, saveLog,
                           gDrawRotateAngle, gARTImage, gARTImageSavePlease,
                           gCallCountMarkerDetect, markerInfo, gPatt_found,
                           gPatt_trans, redisplay>>
       ELSE /\ ms_prev' = ms
            /\ gDrawRotateAngle' = DrawObjUpdate(gDrawRotateAngle, gDrawRotate, elapsed)
            /\ IF ~image
               THEN /\ tick' = [res |-> "noframe", ms |-> ms, sel |-> -1,
                                prevFound |-> gPatt_found, save |-> "none"]
                    /\ UNCHANGED <<pc, exitCode, exitBy, imageNumber, saveLog,
                                   gARTImage, gARTImageSavePlease,
                                   gCallCountMarkerDetect, markerInfo, gPatt_found,
                                   gPatt_trans, redisplay>>
               ELSE /\ gARTImage' = ms
                    /\ imageNumber' = NextImageNumber(imageNumber, saving)
                    /\ saveLog' = IF saving
                                  THEN Append(saveLog, ImageName(imageNumber))
                                  ELSE saveLog
                    /\ gARTImageSavePlease' = FALSE
                    /\ gCallCountMarkerDetect' = gCallCountMarkerDetect + 1
                    /\ IF ~detectOk
                       THEN /\ pc' = "exited"
                            /\ exitCode' = FatalStatus
                            /\ exitBy' = [op |-> "mainLoop", key |-> "none",
                                          call |-> "arDetectMarker"]
                            /\ tick' = [res |-> "fatal", ms |-> ms, sel |-> -1,
                                        prevFound |-> gPatt_found, save |-> saved]
                            /\ UNCHANGED <<markerInfo, gPatt_found, gPatt_trans,
                                           redisplay>>
                       ELSE /\ markerInfo' = markers
                            /\ tick' = [res |-> "done", ms |-> ms, sel |-> k,
                                        prevFound |-> gPatt_found, save |-> saved]
                            /\ gPatt_trans' =
                                   IF k = -1 THEN gPatt_trans
                                   ELSE IF poseOk
                                        THEN [frame |-> ms, marker |-> k, ok |-> TRUE]
                                        ELSE [gPatt_trans EXCEPT !.ok = FALSE]
                            /\ gPatt_found' = PattFound(k, poseOk, gPatt_found)
                            /\ redisplay' = TRUE
                            /\ UNCHANGED <<pc, exitCode, exitBy>>
    /\ UNCHANGED <<res, idleFunc, gDrawRotate, detectorVars, rendererVars, hudVars,
                   lastAdjust, keyRun, lastVisible, lastDraw>>

(***************************************************************************)
(* The state in which main enters glutMainLoop: every setup step has       *)
(* succeeded, the statics and globals hold their initialisers, no callback *)
(* has run.  The detector and renderer settings are those the library      *)
(* gives a new handle.                                                     *)
(***************************************************************************)
InitGlobals ==
    /\ exitCode = -1
    /\ exitBy = [op |-> "none", key |-> "none", call |-> "none"]
    /\ idleFunc = "NULL"
    /\ lastVisible = "none"
    /\ lastAdjust = [threshChange |-> 0, threshhold |-> 0]
    /\ keyRun = NoRun
    /\ tick = [res |-> "none", ms |-> 0, sel |-> -1, prevFound |-> FALSE,
               save |-> "none"]
    /\ ms_prev = 0
    /\ imageNumber = 0
    /\ saveLog = <<>>
    /\ gDrawRotate = TRUE
    /\ gDrawRotateAngle = 0
    /\ gARTImage = NULL
    /\ gARTImageSavePlease = FALSE
    /\ gCallCountMarkerDetect = 0
    /\ markerInfo = <<>>
    /\ gPatt_found = FALSE
    /\ gPatt_trans = [frame |-> NULL, marker |-> -1, ok |-> FALSE]
    /\ gShowHelp = 1
    /\ gShowMode = 1
    /\ redisplay = FALSE
    /\ lastDraw = [background |-> "none", mesh |-> FALSE, calls |-> <<>>,
                   reads |-> [frame |-> 0, pose |-> 0], poseOfFrame |-> FALSE]
    /\ arDebug = 0

InitProgram ==
    /\ pc = "running"
    /\ res = [x \in Resources |-> "live"]
    /\ InitGlobals

Init ==
    /\ InitProgram
    /\ arLabelingThreshMode = "MANUAL"
    /\ arLabelingThresh = DefaultThresh
    /\ arImageProcMode = "FRAME_IMAGE"
    /\ arglDrawMode = "TEXTURE_MAPPING"
    /\ arglTexmapMode = "FULL_IMAGE"

\* The settings the source does not set itself, drawn from their ranges.
InitThresholds == {0, DefaultThresh, ThreshMax - 2, ThreshMax}

InitThresh ==
    /\ InitProgram
    /\ arLabelingThreshMode \in ThreshModes
    /\ arLabelingThresh \in InitThresholds
    /\ arImageProcMode = "FRAME_IMAGE"
    /\ arglDrawMode = "TEXTURE_MAPPING"
    /\ arglTexmapMode = "FULL_IMAGE"

(***************************************************************************)
(* main, from its first statement to the call of glutMainLoop.  fail names *)
(* the library call that fails, "none" when every call succeeds.           *)
(* setupCamera closes the video path when a call before arParamLTCreate    *)
(* fails and releases nothing when a later one does; setupMarker deletes   *)
(* the pattern handle when arPattLoad fails and leaves the deleted pointer *)
(* in gARPattHandle.  main calls cleanup only after a failure of           *)
(* setupMarker or of arglSetupForCurrentContext.                           *)
(***************************************************************************)
CameraCalls == <<"arVideoOpen", "arVideoGetSize", "arVideoGetPixelFormat",
                 "arParamLoad", "arParamLTCreate", "arCreateHandle",
                 "arSetPixelFormat", "arSetDebugMode", "ar3DCreateHandle",
                 "arVideoCapStart">>
MarkerCalls == <<"arPattCreateHandle", "arPattLoad">>
StartCalls == <<"glmReadOBJ">> \o CameraCalls \o MarkerCalls
                  \o <<"arglSetupForCurrentContext">>

Range(f) == {f[i] : i \in DOMAIN f}

\* The handles xs have been created.
Acquire(r, xs) == [x \in Resources |-> IF x \in xs THEN "live" ELSE r[x]]

setupCamera(fail, r) ==
    CASE fail = "arVideoOpen" ->
             [ok |-> FALSE, res |-> r]
      [] fail \in {"arVideoGetSize", "arVideoGetPixelFormat", "arParamLoad"} ->
             [ok |-> FALSE,
              res |-> [Acquire(r, {"video"}) EXCEPT !["video"] = Release(@)]]
      [] fail = "arParamLTCreate" ->
             [ok |-> FALSE, res |-> Acquire(r, {"video"})]
      [] fail = "arCreateHandle" ->
             [ok |-> FALSE, res |-> Acquire(r, {"video", "cparamLT"})]
      [] fail \in {"arSetPixelFormat", "arSetDebugMode", "ar3DCreateHandle"} ->
             [ok |-> FALSE, res |-> Acquire(r, {"video", "cparamLT", "arHandle"})]
      [] fail = "arVideoCapStart" ->
             [ok |-> FALSE,
              res |-> Acquire(r, {"video", "cparamLT", "arHandle", "ar3DHandle"})]
      [] OTHER ->
             [ok |-> TRUE,
              res |-> Acquire(r, {"video", "cparamLT", "arHandle", "ar3DHandle",
                                  "capture"})]

setupMarker(fail, r) ==
    CASE fail = "arPattCreateHandle" ->
             [ok |-> FALSE, res |-> r]
      [] fail = "arPattLoad" ->
             [ok |-> FALSE,
              res |-> [Acquire(r, {"pattHandle"}) EXCEPT !["pattHandle"] = Release(@)]]
      [] OTHER ->
             [ok |-> TRUE, res |-> Acquire(r, {"pattHandle"})]

\* cleanup() that stops in arPattDeleteHandle: the handles released after it
\* in cleanup are not released.
cleanupKilled(r) == [r EXCEPT !["pattHandle"] = Release(@)]

\* main ends the program after fail, leaving the handles as r.  Deleting the
\* pattern handle a second time is undefined: the call may return, and
\* exit(-1) follows, or the process is killed inside it.
ExitMain(fail, r, withCleanup) ==
    /\ exitBy' = [op |-> "main", key |-> "none", call |-> fail]
    /\ IF withCleanup
       THEN \/ /\ res' = cleanup(r)
               /\ pc' = "exited"
               /\ exitCode' = ExitStatus(ExitFailure)
            \/ /\ r["pattHandle"] = "freed"
               /\ res' = cleanupKilled(r)
               /\ pc' = "crashed"
               /\ exitCode' = exitCode
       ELSE /\ res' = r
            /\ pc' = "exited"
            /\ exitCode' = ExitStatus(ExitFailure)

main(fail) ==
    LET obj == IF fail = "glmReadOBJ" THEN res ELSE Acquire(res, {"obj"})
        cam == setupCamera(fail, obj)
        mark == setupMarker(fail, cam.res)
    IN
    /\ pc = "start"
    /\ IF fail = "glmReadOBJ" THEN ExitMain(fail, obj, FALSE)
       ELSE IF ~cam.ok THEN ExitMain(fail, cam.res, FALSE)
       ELSE IF ~mark.ok THEN ExitMain(fail, mark.res, TRUE)
       ELSE IF fail = "arglSetupForCurrentContext"
            THEN ExitMain(fail, mark.res, TRUE)
       ELSE /\ res' = Acquire(mark.res, {"argl"})
            /\ pc' = "running"
            /\ UNCHANGED <<exitCode, exitBy>>
    /\ UNCHANGED <<idleFunc, loopVars, gDrawRotate, gARTImageSavePlease,
                   detectorVars, rendererVars, hudVars, lastAdjust, keyRun, lastVisible,
                   redisplay, lastDraw>>

\* The process before main: no handle exists.
InitStart ==
    /\ pc = "start"
    /\ res = [x \in Resources |-> "none"]
    /\ InitGlobals
    /\ arLabelingThreshMode = "MANUAL"
    /\ arLabelingThresh = DefaultThresh
    /\ arImageProcMode = "FRAME_IMAGE"
    /\ arglDrawMode = "TEXTURE_MAPPING"
    /\ arglTexmapMode = "FULL_IMAGE"

Startup == \E fail \in Range(StartCalls) \cup {"none"} : main(fail)

(***************************************************************************)
(* The events GLUT delivers.  An idle call draws its inputs from T (clock  *)
(* readings), I (a frame is available), S, D, P (the save, the detection,  *)
(* the pose solver succeed) and M (detection results); an input is drawn   *)
(* only on the path that reads it.                                         *)
(***************************************************************************)
Tick(T, I, S, D, M, P) ==
    \E ms \in T :
        IF Gated(ms - ms_prev)
        THEN mainLoop(ms, FALSE, TRUE, TRUE, <<>>, TRUE)
        ELSE \E image \in I :
            IF ~image
            THEN mainLoop(ms, FALSE, TRUE, TRUE, <<>>, TRUE)
            ELSE \E saveOk \in (IF gARTImageSavePlease THEN S ELSE {TRUE}), detectOk \in D :
                IF ~detectOk
                THEN mainLoop(ms, TRUE, saveOk, FALSE, <<>>, TRUE)
                ELSE \E markers \in M :
                    \E poseOk \in (IF SelectMarker(markers) = -1 THEN {TRUE} ELSE P) :
                        mainLoop(ms, TRUE, saveOk, TRUE, markers, poseOk)

\* The capture counter is capped: no capture is requested once it is MaxImages.
Press(K) ==
    \E key \in K :
        /\ key \in {"s", "S"} => imageNumber < MaxImages
        /\ Keyboard(key)

VisibilityEvent ==
    \E visible \in {"GLUT_VISIBLE", "GLUT_NOT_VISIBLE"} : Visibility(visible)

\* Clock readings, one millisecond before and at the end of each gate interval.
FewInstants == {0} \cup {n * GateMs + o : n \in 1..MaxTicks, o \in {-1, 0}}

\* Clock readings a whole number of full turns after the first gate interval.
Instants == {0} \cup {e * TurnMs + GateMs + o : e \in 0..MaxTurns, o \in {-1, 0}}

OneMatch == <<[id |-> PattId, cf |-> 1]>>
FewMarkers == {<<>>, OneMatch}
MarkerArrays == SeqsUpTo(Markers, MaxMarkers)

\* The rotation key is pressed under SpecTime and SpecKeys.
LoopKeys == QuitKeys \cup {"s", "S", "z"}

\* The whole loop on small inputs.
Next ==
    \/ Tick(FewInstants, BOOLEAN, BOOLEAN, BOOLEAN, FewMarkers, BOOLEAN)
    \/ Press(LoopKeys)
    \/ VisibilityEvent
    \/ Display

Spec == Init /\ [][Next]_vars

\* Timing: clock readings up to MaxTurns full turns apart.
NextTime ==
    \/ Tick(Instants, BOOLEAN, {TRUE}, BOOLEAN, {<<>>}, {TRUE})
    \/ Press({"q", " ", "z"})
    \/ VisibilityEvent
    \/ Display

SpecTime == Init /\ [][NextTime]_vars

\* Detection: one accepted tick, on every marker array up to MaxMarkers.
NextDetect ==
    \/ Tick({0, GateMs}, {TRUE}, {TRUE}, BOOLEAN, MarkerArrays, BOOLEAN)
    \/ Press({"q", "z"})
    \/ VisibilityEvent
    \/ Display

SpecDetect == Init /\ [][NextDetect]_vars

\* Threshold keys, from every initial threshold.
NextThresh ==
    \/ Tick({0, GateMs}, BOOLEAN, {TRUE}, BOOLEAN, {<<>>}, {TRUE})
    \/ Press({"q", "-", "+", "=", "a", "z"})
    \/ VisibilityEvent
    \/ Display

SpecThresh == InitThresh /\ [][NextThresh]_vars

\* The same keys from the settings of a new detector handle.
SpecAdjust == Init /\ [][NextThresh]_vars

\* Every key.  A key with a binding is pressed only while the settings bound
\* to the other keys are as at the start, which bounds the combinations of
\* settings, and the threshold is taken at most MaxAdjust steps from its
\* default.
AtStart(b) ==
    CASE b = " " -> gDrawRotate = TRUE
      [] b = "x" -> arImageProcMode = "FRAME_IMAGE"
      [] b = "c" -> arglDrawMode = "TEXTURE_MAPPING" /\ arglTexmapMode = "FULL_IMAGE"
      [] b = "a" -> arLabelingThreshMode = "MANUAL"
      [] b = "-" -> arLabelingThresh = DefaultThresh
      [] b = "d" -> arDebug = 0
      [] b = "s" -> gARTImageSavePlease = FALSE
      [] b = "?" -> gShowHelp = 1
      [] b = "m" -> gShowMode = 1

Setting(key) ==
    CASE Binding(key) \in {"+", "="} -> "-"
      [] Binding(key) \in {"D"} -> "d"
      [] Binding(key) \in {"S"} -> "s"
      [] OTHER -> Binding(key)

Settings == {" ", "x", "c", "a", "-", "d", "s", "?", "m"}

PressAlone(K) ==
    \E key \in K :
        /\ key \in BoundKeys => \A b \in Settings \ {Setting(key)} : AtStart(b)
        /\ threshChange(key) # 0 =>
               /\ arLabelingThresh - DefaultThresh < MaxAdjust * ThreshStep
               /\ DefaultThresh - arLabelingThresh < MaxAdjust * ThreshStep
        /\ Press({key})

NextKeys ==
    \/ Tick({0, GateMs}, {TRUE}, {TRUE}, {TRUE}, FewMarkers, {TRUE})
    \/ PressAlone(AllKeys \ {"ESC", "Q"})
    \/ VisibilityEvent
    \/ Display

SpecKeys == Init /\ [][NextKeys]_vars

\* The order of glutMainLoop: a redisplay posted by an idle call is served
\* before the idle callback is called again.
IdleCall(T, I, S, D, M, P) == ~redisplay /\ Tick(T, I, S, D, M, P)

NextLoop ==
    \/ IdleCall(FewInstants, BOOLEAN, {TRUE}, BOOLEAN, FewMarkers, BOOLEAN)
    \/ Press({"q", " ", "s", "z"})
    \/ VisibilityEvent
    \/ Display

SpecLoop == Init /\ [][NextLoop]_vars

\* An idle call that passes the gate and acquires a frame.
FrameTick(T, S, D, M, P) ==
    /\ Tick(T, {TRUE}, S, D, M, P)
    /\ tick'.res \in {"done", "fatal"}

\* The clock has a reading left at which an idle call passes the gate.
ClockLeft(T) == \E ms \in T : ms >= tick.ms /\ ms - ms_prev >= GateMs

\* The loop with its scheduling: while the idle callback stays registered and
\* the clock advances, GLUT keeps calling it and the frame source delivers a
\* frame again and again.
NextLive ==
    \/ Tick(FewInstants, BOOLEAN, BOOLEAN, BOOLEAN, {<<>>}, {TRUE})
    \/ Press({"q", "s", "z"})
    \/ VisibilityEvent
    \/ Display

SpecLive ==
    /\ Init
    /\ [][NextLive]_vars
    /\ WF_vars(FrameTick(FewInstants, BOOLEAN, BOOLEAN, {<<>>}, {TRUE}))

\* The program from its start, with every startup failure.
NextStart ==
    \/ Startup
    \/ Tick({0, GateMs}, BOOLEAN, {TRUE}, BOOLEAN, FewMarkers, {TRUE})
    \/ Press(QuitKeys \cup {"z"})
    \/ VisibilityEvent
    \/ Display

SpecStart == InitStart /\ [][NextStart]_vars

(***************************************************************************)
(* Properties.                                                             *)
(***************************************************************************)
\* C indices of the markers of info whose id is the registered pattern id.
Matching(info) == {j \in 0..(Len(info) - 1) : info[j + 1].id = PattId}

\* A mainLoop call has just returned with outcome r (a step that repeats a
\* gated call at the same clock reading changes nothing at all).
TickStep(r) == tick' # tick /\ tick'.res = r

\* C1: after a tick that acquired a frame with at least one marker of the
\* registered id, the marker passed to the pose solver is a matching one, no
\* matching marker has a higher confidence, and no matching marker of the same
\* confidence has a lower index; a pose computed in the tick is that marker's.
C1_BestMatchSelected ==
    (tick.res = "done" /\ Matching(markerInfo) # {}) =>
        /\ tick.sel \in Matching(markerInfo)
        /\ \A j \in Matching(markerInfo) :
               /\ markerInfo[j + 1].cf <= markerInfo[tick.sel + 1].cf
               /\ markerInfo[j + 1].cf = markerInfo[tick.sel + 1].cf => tick.sel <= j
        /\ gPatt_trans.ok => gPatt_trans.marker = tick.sel

\* Two matching markers of equal confidence after a marker of another id with
\* a higher confidence: the first matching one was selected.
C1_Witness ==
    /\ tick.res = "done"
    /\ Len(markerInfo) = 3
    /\ markerInfo[1].id # PattId /\ markerInfo[1].cf = 2
    /\ markerInfo[2] = [id |-> PattId, cf |-> 1]
    /\ markerInfo[3] = [id |-> PattId, cf |-> 1]
    /\ tick.sel = 1

\* C2: after a tick that acquired a frame with no marker of the registered id,
\* gPatt_found is false.
C2_NoMatchNotFound ==
    (tick.res = "done" /\ Matching(markerInfo) = {}) => ~gPatt_found

\* gPatt_found was true before such a tick and is false after it.
C2_Witness ==
    /\ tick.res = "done"
    /\ markerInfo = <<>>
    /\ tick.prevFound
    /\ ~gPatt_found

\* C3: after a tick in which the pose solver failed for the selected marker,
\* gPatt_found is false.
C3_PoseFailureNotFound ==
    (tick.res = "done" /\ tick.sel # -1 /\ ~gPatt_trans.ok) => ~gPatt_found

\* C4: the rotation angle is at least 0 and less than 360 degrees.
C4_AngleInRange ==
    0 <= gDrawRotateAngle /\ gDrawRotateAngle < FullTurnMilli

\* C5: an accepted tick is at least 10 ms after the previous accepted one, the
\* recorded tick time never decreases, and a call less than 10 ms after the
\* recorded tick time records nothing, while any other call records its time.
C5_RateGate ==
    [][/\ ms_prev' >= ms_prev
       /\ ms_prev' # ms_prev => ms_prev' - ms_prev >= GateMs
       /\ (tick' # tick /\ tick'.ms - ms_prev < GateMs) =>
              (ms_prev' = ms_prev /\ tick'.res = "gated")
       /\ (tick' # tick /\ tick'.ms - ms_prev >= GateMs) =>
              (ms_prev' = tick'.ms /\ tick'.res # "gated")]_vars

\* A call 1 ms after an accepted tick was gated.
C5_Witness ==
    /\ tick.res = "gated"
    /\ ms_prev > GateMs
    /\ tick.ms = ms_prev + 1

\* The number a digit sequence denotes.
RECURSIVE DigitsValue(_)
DigitsValue(ds) ==
    IF ds = <<>> THEN 0
    ELSE 10 * DigitsValue(SubSeq(ds, 1, Len(ds) - 1)) + ds[Len(ds)]

\* name is "image-NNNN.jpg" with NNNN the number n zero-padded to 4 digits.
IsImageName(name, n) ==
    /\ name.prefix = "image-"
    /\ name.suffix = ".jpg"
    /\ Len(name.digits) = 4
    /\ \A i \in 1..4 : name.digits[i] \in 0..9
    /\ DigitsValue(name.digits) = n

\* C6: a tick that acquires a frame while a capture is requested makes one
\* save attempt, named after the counter, increments the counter and clears
\* the request, whether the save succeeds or fails; a gated tick or one without
\* a frame leaves the request, the counter and the saved files as they are;
\* without a request no save is made and the counter stays.
C6_CaptureOnce ==
    [][/\ ((TickStep("done") \/ TickStep("fatal")) /\ gARTImageSavePlease) =>
              /\ Len(saveLog') = Len(saveLog) + 1
              /\ SubSeq(saveLog', 1, Len(saveLog)) = saveLog
              /\ IsImageName(saveLog'[Len(saveLog')], imageNumber)
              /\ imageNumber' = imageNumber + 1
              /\ ~gARTImageSavePlease'
              /\ tick'.save \in {"ok", "failed"}
       /\ (TickStep("gated") \/ TickStep("noframe")) =>
              UNCHANGED <<gARTImageSavePlease, imageNumber, saveLog>>
       /\ ~gARTImageSavePlease =>
              UNCHANGED <<imageNumber, saveLog>>]_vars

\* The second capture failed: two files were attempted, image-0000 and
\* image-0001, the counter is 2 and the request is cleared.
C6_Witness ==
    /\ tick.save = "failed"
    /\ Len(saveLog) = 2
    /\ saveLog[2].digits = <<0, 0, 0, 1>>
    /\ imageNumber = 2
    /\ ~gARTImageSavePlease

\* C7: the capture counter starts at 0, never decreases, and is higher after
\* every successful save than before it.
C7_CounterMonotonic ==
    /\ imageNumber = 0
    /\ [][/\ imageNumber' >= imageNumber
          /\ (tick' # tick /\ tick'.save = "ok") => imageNumber' > imageNumber]_vars

\* The second capture was saved: the counter is 2.
C7_Witness ==
    /\ tick.save = "ok"
    /\ imageNumber = 2

\* C8: the threshold is within 0..255; after a key that adjusts it, it is
\* the threshold read plus or minus 5, or the bound that sum would cross.
C8_ThresholdClamped ==
    /\ 0 <= arLabelingThresh /\ arLabelingThresh <= 255
    /\ lastAdjust.threshChange # 0 =>
           LET want == lastAdjust.threshhold + lastAdjust.threshChange
           IN  /\ lastAdjust.threshChange \in {-5, 5}
               /\ arLabelingThresh =
                      IF want > 255 THEN 255 ELSE IF want < 0 THEN 0 ELSE want

\* '+' pressed at 253: the threshold is 255.
C8_Witness ==
    /\ lastAdjust = [threshChange |-> 5, threshhold |-> 253]
    /\ arLabelingThresh = 255

\* C9: the idle callback is registered, and a tick can run, exactly when the
\* last visibility event reported the window visible, and while it did not (or
\* none came yet) no step changes what a tick writes, clears a capture request
\* or posts a redisplay.
C9_TicksOnlyWhileVisible ==
    /\ [](idleFunc = "mainLoop" <=> lastVisible = "GLUT_VISIBLE")
    /\ [](pc = "running" =>
             (lastVisible = "GLUT_VISIBLE" <=>
                 ENABLED mainLoop(ms_prev + GateMs, FALSE, TRUE, TRUE, <<>>, TRUE)))
    /\ [][lastVisible # "GLUT_VISIBLE" =>
              /\ UNCHANGED <<tick, ms_prev, imageNumber, saveLog, gDrawRotateAngle,
                             gCallCountMarkerDetect, markerInfo, gPatt_found,
                             gPatt_trans>>
              /\ gARTImage' \in {gARTImage, NULL}
              /\ gARTImageSavePlease => gARTImageSavePlease'
              /\ ~redisplay => ~redisplay']_vars

\* The window was hidden after a tick found the marker, with a capture pending.
C9_Witness ==
    /\ lastVisible = "GLUT_NOT_VISIBLE"
    /\ tick.res = "done"
    /\ gPatt_found
    /\ gARTImageSavePlease

\* C10: a tick whose detection fails ends the program with a non-zero status,
\* leaving gPatt_found, the pose and the detection result as they were and
\* posting no redisplay; an exit from Keyboard is by q, Q or escape with
\* status 0, and in every running state each of these keys exits with status 0.
C10_Exits ==
    /\ [][/\ TickStep("fatal") =>
                 /\ pc' = "exited" /\ exitCode' # 0
                 /\ exitBy'.op = "mainLoop"
                 /\ tick'.sel = -1
                 /\ UNCHANGED <<gPatt_found, gPatt_trans, markerInfo, redisplay>>
          /\ (pc = "running" /\ pc' = "exited" /\ exitBy'.op = "Keyboard") =>
                 (exitBy'.key \in QuitKeys /\ exitCode' = 0)
          /\ (pc = "running" /\ pc' = "exited") =>
                 exitBy'.op \in {"Keyboard", "mainLoop"}]_vars
    /\ [](pc = "running" =>
             \A key \in QuitKeys :
                 ENABLED (Keyboard(key) /\ pc' = "exited" /\ exitCode' = 0))

\* Detection failed in a tick that started with the marker found and nothing
\* to redraw.
C10_Witness ==
    /\ pc = "exited"
    /\ exitBy.op = "mainLoop"
    /\ exitCode = 255
    /\ tick.prevFound
    /\ gPatt_found
    /\ ~redisplay

\* C11: when the program has ended, no handle it created is still held.
C11_TeardownBeforeExit ==
    pc \in {"exited", "crashed"} => \A x \in Resources : res[x] # "live"

\* C12: every Display call makes the background blit first, then draws the
\* mesh exactly when gPatt_found is true at that moment, then sets up the 2D
\* overlay and prints the HUD texts that are switched on, then swaps the
\* buffers, each once; the Display call that serves a tick on a frame with no
\* marker of the registered id blits that frame and draws no mesh.
C12_DisplayOrder ==
    [][Display =>
          LET calls == lastDraw'.calls
              n == Len(calls)
              hud == IF gPatt_found THEN 3 ELSE 2
          IN  /\ calls[1] = "arglDispImage"
              /\ gPatt_found => calls[2] = "DrawObj"
              /\ \A i \in 1..n : calls[i] = "DrawObj" => (gPatt_found /\ i = 2)
              /\ \A i \in 1..n : calls[i] = "arglDispImage" => i = 1
              /\ calls[hud] = "glOrtho"
              /\ \A i \in (hud + 1)..(n - 1) :
                     calls[i] \in {"printMode", "printHelpKeys"}
              /\ calls[n] = "glutSwapBuffers" /\ n > hud
              /\ lastDraw'.mesh = gPatt_found
              /\ (redisplay /\ tick.res = "done" /\ Matching(markerInfo) = {}) =>
                     /\ lastDraw'.background = "frame"
                     /\ ~lastDraw'.mesh
                     /\ calls[2] = "glOrtho"]_vars

\* The redraw after the first tick, on a frame without markers, with the
\* mode line and the help both shown.
C12_Witness ==
    /\ tick.res = "done" /\ markerInfo = <<>> /\ gCallCountMarkerDetect = 1
    /\ ~redisplay
    /\ lastDraw.background = "frame"
    /\ lastDraw.calls = <<"arglDispImage", "glOrtho", "printMode", "printHelpKeys",
                          "glutSwapBuffers">>

C14_RingsClose ==
    /\ (keyRun.key = "a" /\ keyRun.n = 4) => arLabelingThreshMode = keyRun.from
    /\ (keyRun.key = "c" /\ keyRun.n = 3) =>
           <<arglDrawMode, arglTexmapMode>> = keyRun.from
    /\ (keyRun.key = "x" /\ keyRun.n = 2) => arImageProcMode = keyRun.from

\* 'a' was pressed four times in a row starting from AUTO_OTSU.
C14_Witness ==
    /\ keyRun = [key |-> "a", n |-> 4, from |-> "AUTO_OTSU"]
    /\ arLabelingThreshMode = "AUTO_OTSU"

\* The ring pixel-copy -> full-image texture -> half-image texture.
RingNext(label) ==
    CASE label = "GL_DRAW_PIXELS" -> "texture mapping"
      [] label = "texture mapping" -> "texture mapping (even field only)"
      [] label = "texture mapping (even field only)" -> "GL_DRAW_PIXELS"

\* C15: every press of 'c' or 'C' moves the draw mode in effect to the next
\* one of the ring pixel-copy, full-image texture, half-image texture,
\* whatever the renderer's draw mode and texture-map mode are.
C15_DrawModeRing ==
    [][(Keyboard("c") \/ Keyboard("C")) =>
          DrawModeLabel(arglDrawMode', arglTexmapMode') =
              RingNext(DrawModeLabel(arglDrawMode, arglTexmapMode))]_vars

\* Three presses of 'c' in a row that started from pixel-copy with the
\* half-image texture-map mode, which an earlier pass round the ring leaves.
C15_Witness ==
    /\ keyRun = [key |-> "c", n |-> 3,
                 from |-> <<"GL_DRAW_PIXELS", "HALF_IMAGE">>]
    /\ arglDrawMode = "GL_DRAW_PIXELS" /\ arglTexmapMode = "HALF_IMAGE"

\* C16: after two presses in a row of the help key ('?' or '/'), of the mode
\* key ('m' or 'M') or of space, gShowHelp, gShowMode or gDrawRotate is what
\* it was before the first of the two; gShowHelp is 0 or 1.
C16_TogglesClose ==
    /\ gShowHelp \in {0, 1}
    /\ (keyRun.key = "?" /\ keyRun.n = 2) => gShowHelp = keyRun.from
    /\ (keyRun.key = "m" /\ keyRun.n = 2) => gShowMode = keyRun.from
    /\ (keyRun.key = " " /\ keyRun.n = 2) => gDrawRotate = keyRun.from

\* The help key was pressed twice in a row while the help was hidden.
C16_Witness ==
    /\ keyRun = [key |-> "?", n |-> 2, from |-> 0]
    /\ gShowHelp = 0

\* C17: after a press of '-' or '+' the thresholding mode is MANUAL, whatever
\* it was, and the threshold is 5 lower or higher, within 0..255.
C17_AdjustSetsManual ==
    [][(Keyboard("-") \/ Keyboard("+")) =>
          /\ arLabelingThreshMode' = "MANUAL"
          /\ arLabelingThresh' =
                 ClampThresh(arLabelingThresh + (IF Keyboard("-") THEN -5 ELSE 5))]_vars

\* C18: a tick that passes the gate and gets no frame records its time and,
\* while rotation is on, turns the angle by 45 degrees per second of the time
\* since the last recorded tick (less one full turn when that exceeds 360);
\* it leaves gPatt_found, the pose, the frame reference, the capture request,
\* the capture counter, the saved files and the detection counter as they
\* were and posts no redisplay.  A tick posts a redisplay when it acquired a
\* frame and detection succeeded, and no other tick changes the pending
\* redisplay.
C18_NoFrameTick ==
    [][/\ TickStep("noframe") =>
              /\ tick'.ms - ms_prev >= GateMs
              /\ ms_prev' = tick'.ms
              /\ LET turned == gDrawRotateAngle + DegPerSec * (tick'.ms - ms_prev)
                 IN  gDrawRotateAngle' =
                         IF ~gDrawRotate THEN gDrawRotateAngle
                         ELSE IF turned > FullTurnMilli THEN turned - FullTurnMilli
                         ELSE turned
              /\ UNCHANGED <<gPatt_found, gPatt_trans, gARTImage, markerInfo,
                             gARTImageSavePlease, imageNumber, saveLog,
                             gCallCountMarkerDetect, redisplay>>
       /\ TickStep("done") => (redisplay' /\ gARTImage' = tick'.ms)
       /\ (tick' # tick /\ tick'.res # "done") => UNCHANGED redisplay]_vars

\* The second tick got no frame while a capture was requested, the marker
\* was found and nothing was left to redraw.
C18_Witness ==
    /\ tick.res = "noframe" /\ tick.ms = 2 * GateMs /\ ms_prev = tick.ms
    /\ gDrawRotateAngle = DegPerSec * tick.ms
    /\ gARTImageSavePlease /\ gPatt_found /\ ~redisplay
    /\ gCallCountMarkerDetect = 1

\* What a press of key leaves as it was: everything the keys do not set, and
\* every setting but the one bound to key.
KeyFrame(key) ==
    /\ UNCHANGED <<pc, exitCode, exitBy, res, idleFunc, tick, ms_prev, imageNumber,
                   saveLog, gDrawRotateAngle, gARTImage, markerInfo, gPatt_found,
                   gPatt_trans, lastVisible, redisplay, lastDraw>>
    /\ key # " " => UNCHANGED gDrawRotate
    /\ key \notin {"X", "x"} => UNCHANGED arImageProcMode
    /\ key \notin {"a", "A"} => UNCHANGED arLabelingThreshMode
    /\ key \notin {"-", "+", "="} => UNCHANGED arLabelingThresh
    /\ key \notin {"D", "d"} => UNCHANGED arDebug
    /\ key \notin {"s", "S"} => UNCHANGED gARTImageSavePlease
    /\ key \notin {"?", "/"} => UNCHANGED gShowHelp
    /\ key \notin {"m", "M"} => UNCHANGED gShowMode
    /\ key \notin {"C", "c"} =>
           UNCHANGED <<arglDrawMode, arglTexmapMode, gCallCountMarkerDetect>>

C20_NoDoubleRelease ==
    /\ \A x \in Resources : res[x] \in {"none", "live", "freed"}
    /\ exitBy.call = "arPattLoad" => res["pattHandle"] = "freed"

\* C21: the frame reference the last Display call passed to the background
\* blit was not NULL, and when that call drew the mesh, the pose it used had
\* been computed from the frame it blitted.
C21_DrawsFrameAndItsPose ==
    /\ lastDraw.background # "NULL"
    /\ lastDraw.mesh => lastDraw.poseOfFrame

\* C22: a capture request is followed by its clearing, unless the program
\* ends, the window is hidden or the clock has no reading left for another
\* accepted tick; and a request is cleared only by a tick that runs while the
\* window is visible, acquires a frame and makes a save attempt.
C22_CaptureEventuallySaved ==
    /\ gARTImageSavePlease ~>
           \/ ~gARTImageSavePlease
           \/ pc # "running"
           \/ lastVisible # "GLUT_VISIBLE"
           \/ ~ClockLeft(FewInstants)
    /\ [][(gARTImageSavePlease /\ ~gARTImageSavePlease') =>
              /\ lastVisible = "GLUT_VISIBLE"
              /\ TickStep("done") \/ TickStep("fatal")
              /\ Len(saveLog') = Len(saveLog) + 1]_vars

\* The first tick that acquired a frame made the save attempt of a pending
\* request and cleared it.
C22_Witness ==
    /\ ~gARTImageSavePlease /\ Len(saveLog) = 1 /\ imageNumber = 1
    /\ tick.res = "done" /\ tick.save \in {"ok", "failed"}
    /\ gCallCountMarkerDetect = 1
    /\ lastVisible = "GLUT_VISIBLE"

====
